---- MODULE Spec2Model ----
(***************************************************************************)
(* ADB Media Button Simulator (tools/media_button_simulator.py).           *)
(*                                                                         *)
(* A window with four media buttons, three keyboard shortcuts and a        *)
(* check-device button.  Every request creates an AdbWorker (a QThread),   *)
(* stores it in self.worker, connects its finished signal to a handler of  *)
(* the window and starts it.  The worker runs adb as a subprocess and      *)
(* emits finished(ok, text); the emission is queued to the GUI thread,     *)
(* whose event loop calls the connected handler, which writes the status   *)
(* label.                                                                  *)
(*                                                                         *)
(* Text is modelled as a sequence of pieces (strings).  Every whitespace   *)
(* character that strip() or split() can act on is a piece of its own,     *)
(* and the pieces are cut so that the text 'device' occurs in a string     *)
(* exactly where the piece "device" occurs ("devices" is "device"          *)
(* followed by "s").  Concatenation is \o.                                 *)
(***************************************************************************)
EXTENDS Integers, Sequences, FiniteSets, TLC

\* Bound: requests in flight at once (workers running plus results queued
\* to the GUI thread) that the user is let to pile up.
MaxInFlight == 2
\* Bound: lines of adb output in the device-list specification.
MaxLines == 3

VARIABLES
    status,     \* self.status: the text of the status label
    worker,     \* self.worker: None or the AdbWorker object (its slot)
    threads,    \* the AdbWorker objects alive, by slot
    events,     \* finished(...) emissions queued to the GUI thread, in order
    crashed,    \* the process was aborted by Qt
    ran,        \* observation: what the run() of the last step did
    call        \* observation: the handler call made by the last step

\* Of a thread: pc, command (self.command), slot and name (the connection
\* made to its finished signal, and the name its lambda captured);
\* observations: requested (the name send_key was called with), src (the
\* control that was used) and shown (the text its result was shown as).
\* Of an object whose thread has ended only pc and shown are kept: nothing
\* reads its other fields any more.  A queued emission carries its sender's
\* fields, the signal's arguments ok and msg, and what the subprocess did
\* (outcome).

vars == <<status, worker, threads, events, crashed, ran, call>>

----------------------------------------------------------------------------
\* Text

Whitespace == {" ", "\t", "\n"}

CheckMark == "(check mark)"
Cross == "(cross)"

RECURSIVE lstrip(_)
lstrip(s) ==
    IF s # <<>> /\ Head(s) \in Whitespace THEN lstrip(Tail(s)) ELSE s

RECURSIVE rstrip(_)
rstrip(s) ==
    IF s # <<>> /\ s[Len(s)] \in Whitespace
    THEN rstrip(SubSeq(s, 1, Len(s) - 1))
    ELSE s

\* str.strip()
strip(s) == rstrip(lstrip(s))

\* str.split(sep): the pieces between the occurrences of sep
RECURSIVE split(_, _)
split(s, sep) ==
    IF \E i \in 1..Len(s) : s[i] = sep
    THEN LET i == CHOOSE k \in 1..Len(s) :
                      s[k] = sep /\ \A j \in 1..(k - 1) : s[j] # sep
         IN  <<SubSeq(s, 1, i - 1)>> \o split(SubSeq(s, i + 1, Len(s)), sep)
    ELSE <<s>>

\* The length of the leading run of s without whitespace
RECURSIVE wordlen(_)
wordlen(s) ==
    IF s = <<>> \/ Head(s) \in Whitespace THEN 0 ELSE 1 + wordlen(Tail(s))

\* str.split() without a separator: the whitespace-separated words
RECURSIVE words(_)
words(s) ==
    LET t == lstrip(s)
    IN  IF t = <<>> THEN <<>>
        ELSE <<SubSeq(t, 1, wordlen(t))>>
                 \o words(SubSeq(t, wordlen(t) + 1, Len(t)))

\* 'device' in l
contains_device(l) == \E i \in 1..Len(l) : l[i] = "device"

\* [l for l in ls if l.strip() and 'device' in l]
RECURSIVE device_lines(_)
device_lines(ls) ==
    IF ls = <<>> THEN <<>>
    ELSE IF strip(Head(ls)) # <<>> /\ contains_device(Head(ls))
         THEN <<Head(ls)>> \o device_lines(Tail(ls))
         ELSE device_lines(Tail(ls))

----------------------------------------------------------------------------
\* The program's constants and the window's controls

ADB_PATH == "adb"
None == 0

Slots == 1..MaxInFlight

KeyControls ==
    {"btn_prev", "btn_play", "btn_next", "btn_stop",
     "Key_Left", "Key_Right", "Key_Space"}

\* The shortcut wired the wrong way round
BindingSwapped(c) ==
    CASE c = "btn_prev"  -> [keycode |-> "88", name |-> <<"PREVIOUS">>]
      [] c = "btn_play"  -> [keycode |-> "85", name |-> <<"PLAY_PAUSE">>]
      [] c = "btn_next"  -> [keycode |-> "87", name |-> <<"NEXT">>]
      [] c = "btn_stop"  -> [keycode |-> "86", name |-> <<"STOP">>]
      [] c = "Key_Left"  -> [keycode |-> "87", name |-> <<"NEXT">>]
      [] c = "Key_Right" -> [keycode |-> "88", name |-> <<"PREVIOUS">>]
      [] c = "Key_Space" -> [keycode |-> "85", name |-> <<"PLAY_PAUSE">>]

\* The arguments each control's lambda gives to send_key
Binding(c) ==
    CASE c = "btn_prev"  -> [keycode |-> "88", name |-> <<"PREVIOUS">>]
      [] c = "btn_play"  -> [keycode |-> "85", name |-> <<"PLAY_PAUSE">>]
      [] c = "btn_next"  -> [keycode |-> "87", name |-> <<"NEXT">>]
      [] c = "btn_stop"  -> [keycode |-> "86", name |-> <<"STOP">>]
      [] c = "Key_Left"  -> [keycode |-> "88", name |-> <<"PREVIOUS">>]
      [] c = "Key_Right" -> [keycode |-> "87", name |-> <<"NEXT">>]
      [] c = "Key_Space" -> [keycode |-> "85", name |-> <<"PLAY_PAUSE">>]

----------------------------------------------------------------------------
\* AdbWorker

\* What subprocess.run(command, capture_output=True, text=True, timeout=5)
\* does: it returns a completed process, or raises.
Completed(rc, out, err) ==
    [kind |-> "completed", returncode |-> rc, stdout |-> out, stderr |-> err,
     text |-> <<>>]
Raises(kind, text) ==
    [kind |-> kind, returncode |-> 0, stdout |-> <<>>, stderr |-> <<>>,
     text |-> text]

\* self.finished.emit(ok, msg), with no exception leaving run()
emit(ok, msg) == [emitted |-> <<[ok |-> ok, msg |-> msg]>>, raised |-> FALSE]

\* run() without the handler for TimeoutExpired or for the other exceptions
run_uncaught(o) ==
    IF o.kind = "completed"
    THEN IF o.returncode = 0
         THEN emit(TRUE, o.stdout)
         ELSE emit(FALSE, strip(o.stderr))
    ELSE IF o.kind = "FileNotFoundError"
    THEN emit(FALSE, <<"ADB not found!">>)
    ELSE [emitted |-> <<>>, raised |-> TRUE]

\* run() reporting on the captured stdout whatever the exit code
run_ignores_returncode(o) ==
    IF o.kind = "completed"
    THEN emit(TRUE, o.stdout)
    ELSE IF o.kind = "FileNotFoundError"
    THEN emit(FALSE, <<"ADB not found!">>)
    ELSE IF o.kind = "TimeoutExpired"
    THEN emit(FALSE, <<"Timeout - check device">>)
    ELSE emit(FALSE, o.text)

\* AdbWorker.run: the signals it emits and whether an exception leaves it
run(o) ==
    IF o.kind = "completed"
    THEN IF o.returncode = 0
         THEN emit(TRUE, o.stdout)
         ELSE emit(FALSE, strip(o.stderr))
    ELSE IF o.kind = "FileNotFoundError"
    THEN emit(FALSE, <<"ADB not found!">>)
    ELSE IF o.kind = "TimeoutExpired"
    THEN emit(FALSE, <<"Timeout - check device">>)
    ELSE emit(FALSE, o.text)

----------------------------------------------------------------------------
\* The handlers' texts

ReadyText == <<"Ready. Connect phone via USB with debugging enabled.">>
SendingText(name) == <<"Sending ">> \o name \o <<"...">>
CheckingText == <<"Checking device...">>

\* on_key_sent: the text it sets
on_key_sent(success, name, message) ==
    IF success
    THEN <<CheckMark, " Sent: KEYCODE_MEDIA_">> \o name
    ELSE <<Cross, " Error: ">> \o message

\* on_device_check: the text it sets
on_device_check(success, output) ==
    IF success
    THEN LET lines == split(strip(output), "\n")
             devices == device_lines(Tail(lines))
         IN  IF devices # <<>>
             THEN <<CheckMark, " Found device: ">> \o words(devices[1])[1]
             ELSE <<Cross, " No device found. Enable USB debugging!">>
    ELSE <<Cross, " Error: ">> \o output

----------------------------------------------------------------------------
\* State

NoThread ==
    [pc |-> "none", command |-> <<>>, slot |-> "", name |-> <<>>,
     requested |-> <<>>, src |-> "", shown |-> <<>>]
NoRun ==
    [sender |-> None, outcome |-> Raises("", <<>>), emits |-> 0,
     raised |-> FALSE]
NoCall ==
    [sender |-> None, handler |-> "", success |-> FALSE, name |-> <<>>,
     message |-> <<>>,
     command |-> <<>>, requested |-> <<>>, outcome |-> Raises("", <<>>)]

Running == {s \in Slots : threads[s].pc = "running"}

\* Requests whose result the GUI thread has not yet handled
InFlight == Cardinality(Running) + Len(events)

Init ==
    /\ status = ReadyText
    /\ worker = None
    /\ threads = [s \in Slots |-> NoThread]
    /\ events = <<>>
    /\ crashed = FALSE
    /\ ran = NoRun
    /\ call = NoCall

\* A slot that names no object and no sender of a queued emission
Unused(ts, k) ==
    /\ ts[k].pc = "none"
    /\ \A i \in 1..Len(events) : events[i].sender # k

\* self.worker = AdbWorker(command); self.worker.finished.connect(slot);
\* self.worker.start().  The object self.worker named before loses its
\* reference; one that is not running is released at once.
StartWorker(command, slot, name, src) ==
    LET released ==
            IF worker # None /\ threads[worker].pc # "running"
            THEN [threads EXCEPT ![worker] = NoThread]
            ELSE threads
        s == CHOOSE k \in Slots :
                 /\ Unused(released, k)
                 /\ \A j \in Slots : j < k => ~Unused(released, j)
    IN  /\ worker' = s
        /\ threads' = [released EXCEPT ![s] =
               [pc |-> "running", command |-> command, slot |-> slot,
                name |-> name, requested |-> name, src |-> src,
                shown |-> <<>>]]

\* send_key(keycode, name); src is the control whose lambda called it
send_key(keycode, name, src) ==
    /\ status' = SendingText(name)
    /\ StartWorker(<<ADB_PATH, "shell", "input", "keyevent", keycode>>,
                   "on_key_sent", name, src)
    /\ ran' = NoRun
    /\ call' = NoCall
    /\ UNCHANGED <<events, crashed>>

\* check_device()
check_device(src) ==
    /\ status' = CheckingText
    /\ StartWorker(<<ADB_PATH, "devices">>, "on_device_check", <<>>, src)
    /\ ran' = NoRun
    /\ call' = NoCall
    /\ UNCHANGED <<events, crashed>>

\* The worker thread of slot s runs run() to its end, the subprocess doing o.
\* The emissions are queued to the GUI thread.  An object nothing refers to
\* any more is released when its thread has ended.
WorkerRuns(s, o) ==
    /\ ~crashed
    /\ threads[s].pc = "running"
    /\ LET r == run(o)
       IN  /\ events' = events \o
                  [i \in 1..Len(r.emitted) |->
                      [sender |-> s,
                       slot |-> threads[s].slot, name |-> threads[s].name,
                       command |-> threads[s].command,
                       requested |-> threads[s].requested, outcome |-> o,
                       ok |-> r.emitted[i].ok, msg |-> r.emitted[i].msg]]
           /\ ran' = [sender |-> s, outcome |-> o, emits |-> Len(r.emitted),
                      raised |-> r.raised]
    /\ threads' = [threads EXCEPT ![s] =
           IF s = worker THEN [NoThread EXCEPT !.pc = "finished"]
           ELSE NoThread]
    /\ call' = NoCall
    /\ UNCHANGED <<status, worker, crashed>>

\* The name of the most recent request instead of the connection's own
KeySlotNameLatest(e) == threads[worker].name

\* lambda ok, msg: self.on_key_sent(ok, name, msg): the name it passes
KeySlotName(e) == e.name

\* The GUI thread's event loop takes the oldest queued emission and calls the
\* slot connected to it.
Deliver ==
    /\ ~crashed
    /\ events # <<>>
    /\ LET e == Head(events)
           name == IF e.slot = "on_key_sent" THEN KeySlotName(e) ELSE <<>>
       IN  /\ status' = IF e.slot = "on_key_sent"
                        THEN on_key_sent(e.ok, name, e.msg)
                        ELSE on_device_check(e.ok, e.msg)
           /\ call' = [sender |-> e.sender, handler |-> e.slot,
                       success |-> e.ok, name |-> name,
                       message |-> e.msg, command |-> e.command,
                       requested |-> e.requested, outcome |-> e.outcome]
    /\ threads' = IF threads[Head(events).sender].pc = "finished"
                  THEN [threads EXCEPT ![Head(events).sender].shown = status']
                  ELSE threads
    /\ events' = Tail(events)
    /\ ran' = NoRun
    /\ UNCHANGED <<worker, crashed>>

\* A running AdbWorker that self.worker no longer names has no reference
\* left; when the QThread object is destroyed while its thread still runs,
\* Qt aborts the process, and with it every thread and the event queue.
\* Whether and when that happens is not decided by the program: the thread
\* may as well run to its end (WorkerRuns).
DestroyedWhileRunning ==
    /\ ~crashed
    /\ \E s \in Slots : threads[s].pc = "running" /\ s # worker
    /\ crashed' = TRUE
    /\ threads' = [s \in Slots |-> NoThread]
    /\ events' = <<>>
    /\ ran' = NoRun
    /\ call' = NoCall
    /\ UNCHANGED <<status, worker>>

----------------------------------------------------------------------------
\* What the subprocess can do

Stderrs == {<<" ", "error:", " ", "closed", "\n">>, <<"\n">>}

HeaderLine == <<"List", " ", "of", " ", "device", "s", " ", "attached">>

\* adb devices with one device attached, and with none
DeviceOutputs ==
    {HeaderLine \o <<"\n", "emu", "\t", "device", "\n", "\n">>,
     HeaderLine \o <<"\n", "\n">>}

Failures ==
    {Completed(1, <<>>, err) : err \in Stderrs}
        \cup {Raises("FileNotFoundError", <<>>),
              Raises("TimeoutExpired", <<>>),
              Raises("Exception", <<"[Errno 13] Permission denied">>)}

Successes(command) ==
    IF command = <<ADB_PATH, "devices">>
    THEN {Completed(0, out, <<>>) : out \in DeviceOutputs}
    ELSE {Completed(0, <<>>, <<>>)}

\* Every way subprocess.run can end
Outcomes(command) == Successes(command) \cup Failures

\* adb answers, or the device does not answer in time
UsualOutcomes(command) ==
    Successes(command) \cup {Raises("TimeoutExpired", <<>>)}

\* The user uses key control c, or the check-device button, while the
\* process lives, never letting more than MaxInFlight requests pile up.
KeyUsed(c) ==
    /\ ~crashed
    /\ InFlight < MaxInFlight
    /\ send_key(Binding(c).keycode, Binding(c).name, c)

CheckUsed ==
    /\ ~crashed
    /\ InFlight < MaxInFlight
    /\ check_device("btn_check")

\* Every control, the usual outcomes
Next ==
    \/ \E c \in KeyControls : KeyUsed(c)
    \/ CheckUsed
    \/ \E s \in Slots : \E o \in UsualOutcomes(threads[s].command) :
           WorkerRuns(s, o)
    \/ Deliver
    \/ DestroyedWhileRunning

Spec == Init /\ [][Next]_vars

\* Two of the key controls, every outcome
NextOutcomes ==
    \/ \E c \in {"btn_play", "Key_Left"} : KeyUsed(c)
    \/ CheckUsed
    \/ \E s \in Slots : \E o \in Outcomes(threads[s].command) :
           WorkerRuns(s, o)
    \/ Deliver
    \/ DestroyedWhileRunning

SpecOutcomes == Init /\ [][NextOutcomes]_vars

----------------------------------------------------------------------------
\* The device list: one check at a time, adb printing any text of at most
\* MaxLines lines

ParseLines ==
    {<<"emu", "\t", "device">>,
     <<"abc", "\t", "device">>,
     <<"emu", "\t", "offline">>,
     <<"abc", "\t", "unauthorized">>,
     <<"my", "device", "\t", "offline">>,
     <<>>}

\* What adb prints before the header: nothing, or that it started its daemon
Preambles == {<<>>, <<<<"*", " ", "daemon", " ", "started">>>>}

\* The lines of ls, each ended by a newline
RECURSIVE Unlines(_)
Unlines(ls) ==
    IF ls = <<>> THEN <<>> ELSE Head(ls) \o <<"\n">> \o Unlines(Tail(ls))

ParseOutputs ==
    {Unlines(pre \o <<HeaderLine>> \o ls) :
        pre \in Preambles,
        ls \in UNION {[1..n -> ParseLines] : n \in 0..MaxLines}}

NextParse ==
    \/ InFlight = 0 /\ CheckUsed
    \/ \E s \in Slots : \E out \in ParseOutputs :
           WorkerRuns(s, Completed(0, out, <<>>))
    \/ Deliver

SpecParse == Init /\ [][NextParse]_vars

----------------------------------------------------------------------------
\* Properties

Names == {Binding(c).name : c \in KeyControls}
DevicesCommand == <<ADB_PATH, "devices">>
KeyCommand(keycode) == <<ADB_PATH, "shell", "input", "keyevent", keycode>>

InFlightTexts == {SendingText(n) : n \in Names} \cup {CheckingText}
SentText(n) == <<CheckMark, " Sent: KEYCODE_MEDIA_">> \o n
ErrorText(m) == <<Cross, " Error: ">> \o m
NoDeviceText == <<Cross, " No device found. Enable USB debugging!">>
FoundText(id) == <<CheckMark, " Found device: ">> \o id

\* No worker thread runs and no result waits for the GUI thread
Quiescent == Running = {} /\ events = <<>>

\* C1: every request is in the end reflected as a result: once no worker
\* is running (and no result is on its way to the GUI thread) the status
\* text is not left at 'Sending <name>...' or 'Checking device...'.
C1_NeverLeftInFlight == Quiescent => status \notin InFlightTexts

\* C2: after send_key has set the status to 'Sending <name>...', the next
\* change of the status text is the result of that same request, the most
\* recent one, whose worker self.worker names.
C2_NextChangeIsOwnResult ==
    [][\A n \in Names :
          status = SendingText(n) /\ status' # status
              => /\ call'.handler = "on_key_sent"
                 /\ call'.sender = worker
                 /\ call'.requested = n
                 /\ status' \in {SentText(n), ErrorText(call'.message)}]_vars

\* C3: at most one AdbWorker thread is running.
C3_SingleWorker == Cardinality(Running) <= 1

\* t is s without its leading and trailing whitespace
IsStripped(t, s) ==
    \E i \in 1..(Len(s) + 1) : \E j \in 0..Len(s) :
        /\ t = SubSeq(s, i, j)
        /\ \A k \in 1..(i - 1) : s[k] \in Whitespace
        /\ \A k \in (j + 1)..Len(s) : s[k] \in Whitespace
        /\ t # <<>> => t[1] \notin Whitespace /\ t[Len(t)] \notin Whitespace

\* C4: the text shown for a key request matches what the subprocess did:
\* the success text 'Sent: KEYCODE_MEDIA_<name>' if and only if it completed
\* with exit code 0; 'Error: ' and the stripped stderr for another exit
\* code; 'Error: ADB not found!' for a missing executable; 'Error: Timeout -
\* check device' for a timeout; 'Error: ' and the message for any other
\* exception.
C4_ResultMatchesOutcome ==
    (call.sender # None /\ call.command # DevicesCommand) =>
        LET o == call.outcome
            n == call.requested
        IN  /\ status = SentText(n)
                  <=> (o.kind = "completed" /\ o.returncode = 0)
            /\ (o.kind = "completed" /\ o.returncode # 0) =>
                  /\ SubSeq(status, 1, 2) = <<Cross, " Error: ">>
                  /\ IsStripped(SubSeq(status, 3, Len(status)), o.stderr)
            /\ o.kind = "FileNotFoundError" =>
                  status = <<Cross, " Error: ", "ADB not found!">>
            /\ o.kind = "TimeoutExpired" =>
                  status = <<Cross, " Error: ", "Timeout - check device">>
            /\ o.kind = "Exception" => status = <<Cross, " Error: ">> \o o.text

\* A key request whose adb ended with an exit code other than 0 was reported
C4_Witness ==
    /\ call.sender # None
    /\ call.command # DevicesCommand
    /\ call.outcome.kind = "completed"
    /\ call.outcome.returncode # 0
    /\ status = <<Cross, " Error: ", "error:", " ", "closed">>

\* C5: each run of AdbWorker.run emits finished exactly once, whatever the
\* subprocess did, and no exception leaves run.
C5_EmitsExactlyOnce == ran.sender # None => ran.emits = 1 /\ ~ran.raised

\* A run whose subprocess timed out has emitted once
C5_Witness ==
    /\ ran.sender # None
    /\ ran.outcome.kind = "TimeoutExpired"
    /\ ran.emits = 1
    /\ Len(events) >= 1

\* The command the claim gives for each control
ClaimedCommand(c) ==
    CASE c \in {"btn_prev", "Key_Left"}  -> KeyCommand("88")
      [] c \in {"btn_play", "Key_Space"} -> KeyCommand("85")
      [] c \in {"btn_next", "Key_Right"} -> KeyCommand("87")
      [] c = "btn_stop"                  -> KeyCommand("86")
      [] c = "btn_check"                 -> DevicesCommand

FourCommands == {KeyCommand(k) : k \in {"88", "85", "87", "86"}}

\* Every started worker runs the command of the control that was used
CommandFixedByControl ==
    \A s \in Running : threads[s].command = ClaimedCommand(threads[s].src)

\* C6 as stated: the command is fixed by the control, and the commands the
\* program runs are the four key-event commands.
C6_FourCommands ==
    /\ CommandFixedByControl
    /\ \A s \in Running : threads[s].command \in FourCommands

\* C6 as amended: the command is fixed by the control, and the commands the
\* program runs are five: the four key-event commands and [ADB_PATH,
\* 'devices'].
C6_FiveCommands ==
    /\ CommandFixedByControl
    /\ \A s \in Running :
           threads[s].command \in FourCommands \cup {DevicesCommand}
    /\ Cardinality(FourCommands \cup {DevicesCommand}) = 5

\* The Left shortcut and the check-device button are both at work
C6_Witness ==
    \E s, r \in Running :
        /\ threads[s].src = "Key_Left"
        /\ threads[s].command = KeyCommand("88")
        /\ threads[r].src = "btn_check"
        /\ threads[r].command = DevicesCommand

\* The lines of the output after its 'List of devices attached' header
RECURSIVE AfterHeader(_)
AfterHeader(ls) ==
    IF ls = <<>> THEN <<>>
    ELSE IF words(Head(ls)) = <<<<"List">>, <<"of">>, <<"device", "s">>,
                                 <<"attached">>>>
         THEN Tail(ls)
         ELSE AfterHeader(Tail(ls))

\* A line '<serial> device': an attached device in the 'device' state
IsAttached(l) == Len(words(l)) = 2 /\ words(l)[2] = <<"device">>

\* The serials of the attached devices the output lists, in order
RECURSIVE Serials(_)
Serials(ls) ==
    IF ls = <<>> THEN <<>>
    ELSE IF IsAttached(Head(ls))
         THEN <<words(Head(ls))[1]>> \o Serials(Tail(ls))
         ELSE Serials(Tail(ls))

\* C7: on_device_check(True, output) reports 'Found device: <id>' if and
\* only if the output lists an attached device in the 'device' state after
\* the header, <id> being the serial of the first one; otherwise it reports
\* 'No device found. Enable USB debugging!'.
C7_DeviceListParse ==
    (call.handler = "on_device_check" /\ call.success) =>
        LET ids == Serials(AfterHeader(split(call.message, "\n")))
        IN  status = IF ids # <<>> THEN FoundText(ids[1]) ELSE NoDeviceText

\* C8: last request wins: once all workers have finished and their results
\* are handled, the status is the result of the most recent request, the
\* one whose worker self.worker names.
C8_LastRequestWins ==
    (Quiescent /\ ~crashed /\ worker # None) =>
        status = threads[worker].shown

\* C9: every AdbWorker thread that is running is the one self.worker names.
C9_NeverOrphaned == \A s \in Running : s = worker

\* C10: a result goes to the handler of its own request: a worker started
\* by send_key(keycode, name) reports to on_key_sent with that name, a
\* worker started by check_device reports to on_device_check.
C10_ResultAttributed ==
    call.sender # None =>
        IF call.command = DevicesCommand
        THEN call.handler = "on_device_check"
        ELSE call.handler = "on_key_sent" /\ call.name = call.requested

\* The result of a key request was handled while a later request with
\* another name was under way
C10_Witness ==
    /\ call.sender # None
    /\ call.handler = "on_key_sent"
    /\ call.name = call.requested
    /\ call.sender # worker
    /\ threads[worker].pc = "running"
    /\ threads[worker].slot = "on_key_sent"
    /\ threads[worker].requested # call.requested

====
